---- MODULE Spec2Model ----
(***************************************************************************)
(* A model of the two subsystems of the repository:                        *)
(*   - trendradar/ai/paper_summarizer.py : text utilities and the batched  *)
(*     summarizer PaperSummarizer.summarize_batch;                         *)
(*   - trendradar/crawler/rss/huggingface_papers.py : the cascading        *)
(*     extractor parse_hf_daily_papers.                                    *)
(*                                                                         *)
(* A python string is a sequence of one-character strings.  Three          *)
(* specifications share the variables: Spec (the summarizer), SpecParse    *)
(* (the extractor) and SpecTrunc (_truncate_at_sentence alone).            *)
(***************************************************************************)
EXTENDS Integers, Sequences, FiniteSets, TLC

VARIABLES
    \* ---- PaperSummarizer ----
    pc,         \* position of the caller: idle / validate / loop / chat / done / raised
    reqs,       \* the argument of the running summarize_batch call
    flag,       \* self._last_is_fallback: "unset" (attribute missing), "true", "false"
    out,        \* the mapping being built; each value carries the branch that wrote it
    keys,       \* list(prep.keys())
    i,          \* the loop variable of the batch loop
    calls,      \* the chat invocations issued by the running call, in order
    replies,    \* what the capability answered to each of them, in order
    \* ---- _truncate_at_sentence ----
    tpc, ttext, tlimit, tres,
    \* ---- parse_hf_daily_papers ----
    ppc,        \* position of the call: idle / s1 / s2 / s3 / s4 / done
    content,    \* the argument: the page, a sequence of indices into Segments
    tried,      \* the strategies evaluated so far, in order, with what each produced
    result      \* the records returned

svars == <<pc, reqs, flag, out, keys, i, calls, replies>>
tvars == <<tpc, ttext, tlimit, tres>>
pvars == <<ppc, content, tried, result>>
vars == <<svars, tvars, pvars>>

-----------------------------------------------------------------------------
(* Bounds of the model and constants of the program.                       *)

MaxLen == 5             \* SpecTrunc: longest input text
MaxLimit == 4           \* SpecTrunc: largest max_chars
MaxReqs == 25           \* Spec: most requests of one summarize_batch call

BATCH_SIZE == 10
FALLBACK_MAX_CHARS == 200
self_max_chars == 100       \* PaperSummarizer.max_chars, the default of __init__
TOKENS_PER_ITEM == 120
MIN_TOKENS == 800

-----------------------------------------------------------------------------
(* Python strings.                                                         *)

\* the characters python's \s and str.strip() treat as whitespace (those in use here)
WS == {" ", "\n", "\r", "\t"}
LineBreaks == {"\n", "\r"}

Rep(c, n) == [j \in 1..n |-> c]
Max(S) == CHOOSE x \in S : \A y \in S : y <= x
Min(S) == CHOOSE x \in S : \A y \in S : x <= y
Indices(n) == [j \in 1..n |-> j]

\* text[:n] for n >= 0
Prefix(s, n) == SubSeq(s, 1, IF n < Len(s) THEN n ELSE Len(s))

\* str.rstrip()
RECURSIVE rstrip(_)
rstrip(s) ==
    IF s = <<>> THEN s
    ELSE IF s[Len(s)] \in WS THEN rstrip(SubSeq(s, 1, Len(s) - 1))
    ELSE s

\* str.lstrip()
RECURSIVE lstrip(_)
lstrip(s) ==
    IF s = <<>> THEN s
    ELSE IF s[1] \in WS THEN lstrip(Tail(s))
    ELSE s

\* str.strip()
strip(s) == rstrip(lstrip(s))

\* re.sub(r"\s+", " ", text): every whitespace run becomes one space
collapse_ws(s) ==
    LET kept == SelectSeq(Indices(Len(s)),
                          LAMBDA j : s[j] \notin WS \/ j = 1 \/ s[j - 1] \notin WS)
    IN  [j \in 1..Len(kept) |-> IF s[kept[j]] \in WS THEN " " ELSE s[kept[j]]]

_strip_ws(text) ==
    IF text = <<>> THEN <<>> ELSE strip(collapse_ws(text))

_truncate_chars(text0, max_chars) ==
    LET text == _strip_ws(text0)
    IN  IF text = <<>> THEN <<>>
        ELSE IF Len(text) <= max_chars THEN text
        ELSE rstrip(Prefix(text, max_chars))

\* the separators of _truncate_at_sentence, in the order the loop tries them
\* (the three full-width characters U+3002, U+FF1B and U+FF0C, each one character
\* of the text, are written "U+3002", "U+FF1B" and "U+FF0C")
Separators ==
    << <<".", " ">>, <<"U+3002">>, <<"U+FF1B">>, <<";", " ">>, <<",", " ">>,
       <<"U+FF0C">> >>

Ellipsis == <<".", ".", ".">>

\* str.rfind(sep): the highest 0-based index where sep occurs, -1 when none
rfind(chunk, sep) ==
    LET hits == {p \in 0..(Len(chunk) - Len(sep)) :
                    \A j \in 1..Len(sep) : chunk[p + j] = sep[j]}
    IN  IF hits = {} THEN -1 ELSE Max(hits)

\* the first separator of the list whose last occurrence lies past max_chars // 3
\* (0 when none does)
FirstSepPast(chunk, max_chars) ==
    LET good == {k \in 1..Len(Separators) :
                    rfind(chunk, Separators[k]) > max_chars \div 3}
    IN  IF good = {} THEN 0 ELSE Min(good)

_truncate_at_sentence(text0, max_chars) ==
    LET text == _strip_ws(text0)
    IN  IF text = <<>> THEN <<>>
        ELSE IF Len(text) <= max_chars THEN text
        ELSE LET chunk == Prefix(text, max_chars)
                 k == FirstSepPast(chunk, max_chars)
                 space_pos == rfind(chunk, <<" ">>)
             IN  IF k # 0
                 THEN rstrip(Prefix(chunk, rfind(chunk, Separators[k])
                                           + Len(Separators[k])))
                 ELSE IF space_pos > max_chars \div 3
                 THEN rstrip(Prefix(chunk, space_pos)) \o Ellipsis
                 ELSE rstrip(chunk) \o Ellipsis

-----------------------------------------------------------------------------
(* PaperSummarizer: requests, the capability's replies, the helpers.       *)

\* PaperSummaryRequest
Request(key, title, abstract) == [key |-> key, title |-> title, abstract |-> abstract]

_fallback_summary(req) ==
    LET abstract == _strip_ws(req.abstract)
        text == IF abstract # <<>> THEN abstract ELSE _strip_ws(req.title)
    IN  IF text = <<>> THEN <<>>
        ELSE _truncate_at_sentence(text, FALLBACK_MAX_CHARS)

\* A JSON value of a reply: a string, null, a list, or an object whose members
\* map keys to strings or nulls.
JStr(s) == [t |-> "str", s |-> s]
JNull == [t |-> "null", s |-> <<>>]
JObject(m) == [t |-> "object", m |-> m]
JList == [t |-> "list", m |-> <<>>]
JNone == [t |-> "none", m |-> <<>>]

\* The text of a reply is a sequence of pieces: a fence of three backticks followed by json,
\* a bare fence of three backticks, prose, or the text of one JSON value.
FenceJson == [tok |-> "fence_json", val |-> JNone]
Fence == [tok |-> "fence", val |-> JNone]
Prose == [tok |-> "prose", val |-> JNone]
Json(v) == [tok |-> "json", val |-> v]

\* the three backticks occur in the piece: both fences contain them
HasBackticks(piece) == piece.tok \in {"fence_json", "fence"}

\* the first of the positions hits after position from, 0 when there is none
FirstAfter(hits, from) ==
    LET later == {j \in hits : j > from}
    IN  IF later = {} THEN 0 ELSE Min(later)

IsFenceJson(piece) == piece.tok = "fence_json"

\* _extract_json on a text reply ("not text" covers None and the empty string)
_extract_json(text) ==
    IF text = <<>> THEN <<>>
    ELSE LET jsons == {j \in 1..Len(text) : IsFenceJson(text[j])}
             ticks == {j \in 1..Len(text) : HasBackticks(text[j])}
             fj == FirstAfter(jsons, 0)
             f1 == FirstAfter(ticks, 0)
         IN  IF fj # 0
             THEN LET end == FirstAfter(ticks, fj)
                  IN  IF end # 0 THEN SubSeq(text, fj + 1, end - 1)
                      ELSE SubSeq(text, fj + 1, Len(text))
             ELSE IF f1 # 0
             THEN LET f2 == FirstAfter(ticks, f1)
                  IN  IF f2 # 0 THEN SubSeq(text, f1 + 1, f2 - 1)
                      ELSE SubSeq(text, f1 + 1, Len(text))
             ELSE text

\* json.loads: the text must be exactly one well-formed JSON value
json_loads_ok(text) ==
    Len(text) = 1 /\ text[1].tok = "json"

\* What chat does: raise, return something that is not text (None), or return text.
ReplyRaise == [kind |-> "raise", text |-> <<>>]
ReplyNone == [kind |-> "none", text |-> <<>>]
ReplyText(text) == [kind |-> "text", text |-> text]

\* _call_ai_batch given what chat did: an exception, or the mapping it returns
\* (lines 131-135: a parsed value that is no dict gives {}).
_call_ai_batch(reply) ==
    IF reply.kind = "raise" THEN [exc |-> TRUE, data |-> <<>>]
    ELSE LET json_str == _extract_json(reply.text)
         IN  IF ~json_loads_ok(json_str) THEN [exc |-> TRUE, data |-> <<>>]
             ELSE IF json_str[1].val.t # "object" THEN [exc |-> FALSE, data |-> <<>>]
             ELSE [exc |-> FALSE, data |-> json_str[1].val.m]

\* str(v) of a member's value
PyStr(v) == IF v.t = "str" THEN v.s ELSE <<"N", "o", "n", "e">>

\* v = ai_result.get(k, ""); v = _strip_ws(str(v)); v = v.replace(...)  (lines 185-187)
ItemValue(ai_result, k) ==
    LET v0 == IF k \in DOMAIN ai_result THEN PyStr(ai_result[k]) ELSE <<>>
        v1 == _strip_ws(v0)
    IN  [j \in 1..Len(v1) |-> IF v1[j] \in LineBreaks THEN " " ELSE v1[j]]

ToSet(seq) == {seq[j] : j \in 1..Len(seq)}

\* list(prep.keys()): the distinct keys in order of first occurrence (lines 159-165)
PrepKeys(rs) ==
    LET first == SelectSeq(Indices(Len(rs)),
                           LAMBDA j : \A h \in 1..(j - 1) : rs[h].key # rs[j].key)
    IN  [j \in 1..Len(first) |-> rs[first[j]].key]

\* batch_reqs[k]: the dict comprehension keeps the last request with that key (line 171)
BatchReq(rs, k) == rs[Max({j \in 1..Len(rs) : rs[j].key = k})]

\* keys[i : i + BATCH_SIZE]
BatchKeys(ks, start) ==
    SubSeq(ks, start + 1, IF start + BATCH_SIZE < Len(ks) THEN start + BATCH_SIZE ELSE Len(ks))

\* the value written for one key, tagged with the branch that wrote it
AiEntry(v) == [v |-> v, src |-> "ai"]
FallbackEntry(v) == [v |-> v, src |-> "fallback"]

\* (mutant) the run without AI writes an entry for every request, empty or not
FallbackOnlyOut_KeepEmpty(rs) ==
    [k \in {rs[j].key : j \in 1..Len(rs)} |->
        FallbackEntry(_fallback_summary(BatchReq(rs, k)))]

\* lines 147-155: the mapping of the run without AI (a later non-empty fallback
\* of the same key overwrites an earlier one; an empty fallback writes nothing)
FallbackOnlyOut(rs) ==
    LET fb == [j \in 1..Len(rs) |-> _fallback_summary(rs[j])]
        writers == {j \in 1..Len(rs) : fb[j] # <<>>}
    IN  [k \in {rs[j].key : j \in writers} |->
            FallbackEntry(fb[Max({j \in writers : rs[j].key = k})])]

\* lines 177-180: every key of a batch whose call failed
FailedBatchOut(o, rs, bk) ==
    [k \in DOMAIN o \cup ToSet(bk) |->
        IF k \in ToSet(bk) THEN FallbackEntry(_fallback_summary(BatchReq(rs, k)))
        ELSE o[k]]

\* (mutant) the accepted value is stored without the cut to max_chars
ItemEntry_NoTruncate(rs, ai_result, k, max_chars) ==
    LET v == ItemValue(ai_result, k)
    IN  IF v # <<>> THEN AiEntry(v)
        ELSE FallbackEntry(_fallback_summary(BatchReq(rs, k)))

\* lines 184-194: one key of a batch whose call succeeded
ItemEntry(rs, ai_result, k, max_chars) ==
    LET v == ItemValue(ai_result, k)
    IN  IF v # <<>> THEN AiEntry(_truncate_chars(v, max_chars))
        ELSE FallbackEntry(_fallback_summary(BatchReq(rs, k)))

\* (mutant) one missing or empty item degrades its whole batch
ParsedBatchOut_BatchGranularity(o, rs, bk, ai_result, max_chars) ==
    [k \in DOMAIN o \cup ToSet(bk) |->
        IF k \notin ToSet(bk) THEN o[k]
        ELSE IF \E h \in ToSet(bk) : ItemValue(ai_result, h) = <<>>
        THEN FallbackEntry(_fallback_summary(BatchReq(rs, k)))
        ELSE ItemEntry(rs, ai_result, k, max_chars)]

ParsedBatchOut(o, rs, bk, ai_result, max_chars) ==
    [k \in DOMAIN o \cup ToSet(bk) |->
        IF k \in ToSet(bk) THEN ItemEntry(rs, ai_result, k, max_chars) ELSE o[k]]

\* max(len(items) * 120, 800)
max_tok(n) == IF n * TOKENS_PER_ITEM > MIN_TOKENS THEN n * TOKENS_PER_ITEM ELSE MIN_TOKENS

-----------------------------------------------------------------------------
(* The inputs of the model: request lists and replies of the capability.   *)

Short == <<"a", "\n", " ", "b">>
Blank == <<" ", "\n">>
Clause == <<"c", ";", " ", "d", "\t">>
Mid == Rep("m", self_max_chars + 1)
LongNoSep == Rep("a", FALLBACK_MAX_CHARS + 1)

Contents ==
    << [title |-> Short, abstract |-> LongNoSep],
       [title |-> <<>>,  abstract |-> <<>>],
       [title |-> Short, abstract |-> Blank],
       [title |-> Blank, abstract |-> Mid],
       [title |-> Blank, abstract |-> Clause] >>

\* n requests whose contents rotate through Contents; with dup the last request
\* repeats the identifier of the first
Requests(n, rot, dup) ==
    [j \in 1..n |->
        LET c == Contents[((j + rot) % Len(Contents)) + 1]
        IN  Request(IF dup /\ j = n THEN 1 ELSE j, c.title, c.abstract)]

\* the request lists tried: every rotation with distinct identifiers, and one
\* with a repeated identifier
Profiles ==
    {[rot |-> r, dup |-> FALSE] : r \in 0..(Len(Contents) - 1)}
        \cup {[rot |-> 0, dup |-> TRUE]}

GoodVal == <<"s", "\n", "u", "m">>
LongVal == Rep("x", self_max_chars + 1)

\* a reply object with a summary for every key of the batch
FullMap(bk) ==
    [k \in ToSet(bk) |-> JStr(IF k % 5 = 0 THEN LongVal ELSE GoodVal)]

\* a reply object with anomalies: some keys missing, some values empty, blank
\* or null, and a key nobody asked for
HolesMap(bk) ==
    [k \in {h \in ToSet(bk) : h % 5 # 1} \cup {0} |->
        CASE k % 5 = 2 -> JStr(<<>>)
          [] k % 5 = 3 -> JStr(Blank)
          [] k % 5 = 4 -> JNull
          [] OTHER -> JStr(GoodVal)]

Replies(bk) ==
    { ReplyRaise,
      ReplyNone,
      ReplyText(<<Json(JObject(FullMap(bk)))>>),
      ReplyText(<<Prose, FenceJson, Json(JObject(HolesMap(bk))), Fence, Prose>>),
      ReplyText(<<Fence, Json(JList), Fence>>),
      ReplyText(<<Prose, Json(JObject(FullMap(bk)))>>) }

-----------------------------------------------------------------------------
(* Spec: calls of summarize_batch on one PaperSummarizer.                  *)

\* PaperSummarizer.__init__ : no call yet, _last_is_fallback not yet an attribute
SInitIdle ==
    /\ pc = "idle" /\ reqs = <<>> /\ flag = "unset" /\ out = <<>>
    /\ keys = <<>> /\ i = 0 /\ calls = <<>> /\ replies = <<>>

TInitIdle ==
    /\ tpc = "idle" /\ ttext = <<>> /\ tlimit = 1 /\ tres = <<>>

PInitIdle ==
    /\ ppc = "idle" /\ content = <<>> /\ tried = <<>> /\ result = <<>>

Init == SInitIdle /\ TInitIdle /\ PInitIdle

\* summarize_batch is called (lines 143-144): empty input returns {} at once
Enter ==
    /\ pc = "idle"
    /\ \E n \in 0..MaxReqs, p \in Profiles :
          /\ reqs' = Requests(n, p.rot, p.dup)
          /\ pc' = IF n = 0 THEN "done" ELSE "validate"
    /\ out' = <<>> /\ keys' = <<>> /\ i' = 0 /\ calls' = <<>> /\ replies' = <<>>
    /\ UNCHANGED <<flag, tvars, pvars>>

\* line 146: validate_config raises, nothing catches it
AiEnabledRaises ==
    /\ pc = "validate"
    /\ pc' = "raised"
    /\ UNCHANGED <<reqs, flag, out, keys, i, calls, replies, tvars, pvars>>

\* lines 147-155: the configuration is unusable
AiDisabled ==
    /\ pc = "validate"
    /\ out' = FallbackOnlyOut(reqs)
    /\ flag' = "true"
    /\ pc' = "done"
    /\ UNCHANGED <<reqs, keys, i, calls, replies, tvars, pvars>>

\* lines 157-166: the configuration is usable
AiEnabled ==
    /\ pc = "validate"
    /\ flag' = "false"
    /\ keys' = PrepKeys(reqs)
    /\ i' = 0
    /\ out' = <<>>
    /\ pc' = "loop"
    /\ UNCHANGED <<reqs, calls, replies, tvars, pvars>>

\* (mutant) the batch loop stops at the first failed call
LoopPc_StopOnFailure(start, n, failed) ==
    IF failed \/ start + BATCH_SIZE >= n THEN "done" ELSE "loop"

\* the loop header of line 168 after a batch: another batch, or the return of
\* line 196; a failed batch goes on like any other (line 182, continue)
LoopPc(start, n, failed) ==
    IF start + BATCH_SIZE < n THEN "loop" ELSE "done"

\* lines 168-174 and 120-129: the next batch is sent to chat
CallAiBatch ==
    /\ pc = "loop"
    /\ LET batch_keys == BatchKeys(keys, i)
       IN  calls' = Append(calls, [keys |-> batch_keys,
                                   max_tokens |-> max_tok(Len(batch_keys))])
    /\ pc' = "chat"
    /\ UNCHANGED <<reqs, flag, out, keys, i, replies, tvars, pvars>>

\* lines 131-135 and 175-194: chat has returned or raised; the batch is settled
\* and the loop goes on
BatchReturn ==
    /\ pc = "chat"
    /\ LET batch_keys == BatchKeys(keys, i)
       IN  \E reply \in Replies(batch_keys) :
              LET r == _call_ai_batch(reply)
                  o == IF r.exc THEN FailedBatchOut(out, reqs, batch_keys)
                       ELSE ParsedBatchOut(out, reqs, batch_keys, r.data, self_max_chars)
              IN  /\ replies' = Append(replies, reply)
                  /\ out' = o
                  /\ flag' = IF r.exc \/ \E k \in ToSet(batch_keys) : o[k].src = "fallback"
                             THEN "true" ELSE flag
    /\ i' = i + BATCH_SIZE
    /\ pc' = LoopPc(i, Len(keys), _call_ai_batch(replies'[Len(replies')]).exc)
    /\ UNCHANGED <<reqs, keys, calls, tvars, pvars>>

\* the call is over (the mapping was returned, or the exception went up to the
\* caller); the summarizer object lives on with its _last_is_fallback
Return ==
    /\ pc \in {"done", "raised"}
    /\ pc' = "idle"
    /\ reqs' = <<>> /\ out' = <<>> /\ keys' = <<>> /\ i' = 0
    /\ calls' = <<>> /\ replies' = <<>>
    /\ UNCHANGED <<flag, tvars, pvars>>

Next == Return \/ Enter \/ AiEnabledRaises \/ AiDisabled \/ AiEnabled \/ CallAiBatch \/ BatchReturn

Spec == Init /\ [][Next]_vars

-----------------------------------------------------------------------------
(* Claims about summarize_batch, checked under Spec.                       *)

\* the requests of the running call have pairwise distinct identifiers
DistinctKeys ==
    \A a, b \in 1..Len(reqs) : a # b => reqs[a].key # reqs[b].key

\* the running call found the configuration usable / unusable
UsableRun == keys # <<>>
UnusableRun == pc = "done" /\ reqs # <<>> /\ keys = <<>>

\* the batch of the j-th request when identifiers are distinct
BatchOf(j) == ((j - 1) \div BATCH_SIZE) + 1

ReplyRaised(reply) == reply.kind = "raise"
ParseFailed(reply) ==
    reply.kind # "raise" /\ ~json_loads_ok(_extract_json(reply.text))
NotAMapping(reply) ==
    /\ reply.kind # "raise"
    /\ json_loads_ok(_extract_json(reply.text))
    /\ _extract_json(reply.text)[1].val.t # "object"
BatchFailed(reply) == ReplyRaised(reply) \/ ParseFailed(reply) \/ NotAMapping(reply)

\* the identifier is missing from the parsed mapping, or its value is empty
\* after normalization
ItemAnomaly(reply, k) ==
    LET m == _extract_json(reply.text)[1].val.m
    IN  k \notin DOMAIN m \/ _strip_ws(PyStr(m[k])) = <<>>

\* C1: with a usable configuration and distinct identifiers, an item of an
\* answered batch is fallback-derived exactly when its own batch failed (the
\* call raised, the reply did not parse, or parsed to a non-mapping) or its own
\* identifier is missing from the parsed mapping or has an empty value; all
\* other items keep the AI-derived value, and items of batches not yet
\* answered have no entry.
C1_FallbackGranularity ==
    (UsableRun /\ DistinctKeys) =>
        \A j \in 1..Len(reqs) :
            LET k == reqs[j].key
            IN  IF BatchOf(j) > Len(replies) THEN k \notin DOMAIN out
                ELSE LET reply == replies[BatchOf(j)]
                     IN  /\ k \in DOMAIN out
                         /\ out[k].src = "fallback"
                              <=> (BatchFailed(reply) \/ ItemAnomaly(reply, k))
                         /\ out[k].src = "fallback"
                              => out[k].v = _fallback_summary(reqs[j])
                         /\ out[k].src = "ai"
                              => out[k].v = _truncate_chars(
                                    PyStr(_extract_json(reply.text)[1].val.m[k]),
                                    self_max_chars)

\* C1 witness: three batches; the second call raised; in the first, one item is
\* fallback-derived for a missing key while another item keeps its AI value.
C1_Witness ==
    /\ pc = "done" /\ UsableRun /\ DistinctKeys /\ Len(replies) = 3
    /\ ReplyRaised(replies[2])
    /\ ~BatchFailed(replies[1]) /\ ~BatchFailed(replies[3])
    /\ \E a, b \in 1..BATCH_SIZE :
          /\ out[reqs[a].key].src = "fallback"
          /\ out[reqs[b].key].src = "ai"
    /\ \A j \in 1..Len(reqs) : BatchOf(j) = 2 => out[reqs[j].key].src = "fallback"
    /\ \A j \in 1..Len(reqs) : BatchOf(j) = 3 => out[reqs[j].key].src = "ai"

Ceil(n) == (n + BATCH_SIZE - 1) \div BATCH_SIZE

\* the identifiers of the b-th group of BATCH_SIZE requests, in request order
ExpectedBatch(b) ==
    LET lo == (b - 1) * BATCH_SIZE + 1
        hi == IF b * BATCH_SIZE < Len(reqs) THEN b * BATCH_SIZE ELSE Len(reqs)
    IN  [j \in 1..(hi - lo + 1) |-> reqs[lo + j - 1].key]

\* C2: with distinct identifiers and a usable configuration the chat
\* invocations are, in order, the groups of BATCH_SIZE consecutive requests,
\* each group once, ceil(N / BATCH_SIZE) of them when the call returns,
\* whatever failed on the way; an invocation is issued only when every earlier
\* one has been answered; empty input or an unusable configuration gives no
\* invocation.
C2_Invocations ==
    /\ (UsableRun /\ DistinctKeys) =>
          /\ Len(calls) <= Ceil(Len(reqs))
          /\ \A b \in 1..Len(calls) : calls[b].keys = ExpectedBatch(b)
          /\ pc = "done" => Len(calls) = Ceil(Len(reqs))
    /\ ~UsableRun => calls = <<>>
    /\ IF pc = "chat" THEN Len(calls) = Len(replies) + 1
       ELSE Len(calls) = Len(replies)

\* C2 witness: 25 requests, 3 invocations, the 2nd of which raised.
C2_Witness ==
    /\ pc = "done" /\ DistinctKeys /\ Len(reqs) = 25 /\ Len(calls) = 3
    /\ ReplyRaised(replies[2])

NoLineBreak(v) == \A j \in 1..Len(v) : v[j] \notin LineBreaks

\* C3 as stated: every returned value is at most max_chars long and holds no
\* line break.
C3_AllWithinBudget ==
    pc = "done" =>
        \A k \in DOMAIN out : Len(out[k].v) <= self_max_chars /\ NoLineBreak(out[k].v)

\* C3 amended: no returned value holds a line break; an AI-derived value is at
\* most max_chars long; a fallback-derived value is bounded by
\* FALLBACK_MAX_CHARS plus the three characters of the ellipsis instead.
C3_LengthBounds ==
    \A k \in DOMAIN out :
        /\ NoLineBreak(out[k].v)
        /\ out[k].src = "ai" => Len(out[k].v) <= self_max_chars
        /\ out[k].src = "fallback" => Len(out[k].v) <= FALLBACK_MAX_CHARS + Len(Ellipsis)

\* C3 witness: a returned mapping with an AI value cut to max_chars and a
\* fallback value longer than FALLBACK_MAX_CHARS.
C3_Witness ==
    /\ pc = "done"
    /\ \E k \in DOMAIN out : out[k].src = "ai" /\ Len(out[k].v) = self_max_chars
    /\ \E k \in DOMAIN out :
          out[k].src = "fallback" /\ Len(out[k].v) > FALLBACK_MAX_CHARS

\* C4: after a call, _last_is_fallback is true exactly when some entry of the
\* returned mapping is fallback-derived.
C4_FlagIffFallback ==
    pc = "done" =>
        (flag = "true" <=> \E k \in DOMAIN out : out[k].src = "fallback")

\* C5: no error of the capability leaves summarize_batch as an exception.
C5_NoEscape == pc # "raised"

BothEmpty(r) == strip(r.abstract) = <<>> /\ strip(r.title) = <<>>

\* C6 as stated: with an unusable configuration, a request whose abstract and
\* title are both empty is mapped to the empty string.
C6_TotalFailureEmptyString ==
    (UnusableRun /\ DistinctKeys) =>
        \A j \in 1..Len(reqs) :
            BothEmpty(reqs[j]) =>
                reqs[j].key \in DOMAIN out /\ out[reqs[j].key].v = <<>>

\* C6 amended: with an unusable configuration the mapping holds no empty
\* string, and the identifier of a request whose abstract and title are both
\* empty has an entry only when another request with that identifier is not
\* empty; on the AI path such a request inside a failed batch is mapped to the
\* empty string.
C6_TotalFailureOmitted ==
    /\ UnusableRun =>
          /\ \A k \in DOMAIN out : out[k].v # <<>>
          /\ \A j \in 1..Len(reqs) :
                reqs[j].key \in DOMAIN out
                    <=> \E h \in 1..Len(reqs) :
                           reqs[h].key = reqs[j].key /\ ~BothEmpty(reqs[h])
    /\ (pc = "done" /\ UsableRun) =>
          \A b \in 1..Len(replies) : \A h \in 1..Len(calls[b].keys) :
              LET k == calls[b].keys[h]
              IN  (BatchFailed(replies[b]) /\ BothEmpty(BatchReq(reqs, k)))
                      => (k \in DOMAIN out /\ out[k].v = <<>>)

\* C6 witness: an unusable configuration, a request with empty abstract and
\* title whose identifier is absent from a mapping that holds other entries.
C6_Witness ==
    /\ UnusableRun /\ DistinctKeys
    /\ DOMAIN out # {}
    /\ \E j \in 1..Len(reqs) : BothEmpty(reqs[j]) /\ reqs[j].key \notin DOMAIN out

-----------------------------------------------------------------------------
(* SpecTrunc: _truncate_at_sentence applied to every short text.           *)

TruncAlphabet == {"a", " ", ".", "U+FF0C"}

TruncTexts == UNION {[1..n -> TruncAlphabet] : n \in 0..MaxLen}

TInit ==
    /\ SInitIdle /\ PInitIdle
    /\ tpc = "call"
    /\ ttext \in TruncTexts
    /\ tlimit \in 1..MaxLimit
    /\ tres = <<>>

Truncate ==
    /\ tpc = "call"
    /\ tres' = _truncate_at_sentence(ttext, tlimit)
    /\ tpc' = "done"
    /\ UNCHANGED <<ttext, tlimit, svars, pvars>>

TNext == Truncate

SpecTrunc == TInit /\ [][TNext]_vars

\* the branches of _truncate_at_sentence that append the ellipsis are taken
EllipsisBranch(text0, max_chars) ==
    LET text == _strip_ws(text0)
    IN  /\ Len(text) > max_chars
        /\ \A k \in 1..Len(Separators) :
              rfind(Prefix(text, max_chars), Separators[k]) <= max_chars \div 3

\* C10: when the normalized text exceeds the limit and no separator lies past
\* one third of the limit, the result of _truncate_at_sentence is at most
\* limit characters long.
C10_EllipsisWithinLimit ==
    (tpc = "done" /\ EllipsisBranch(ttext, tlimit)) => Len(tres) <= tlimit

-----------------------------------------------------------------------------
(* huggingface_papers.py: characters and the regular expressions.          *)

DigitOrder == <<"0", "1", "2", "3", "4", "5", "6", "7", "8", "9">>
Digits == {DigitOrder[j] : j \in 1..Len(DigitOrder)}
UpperCase ==
    << "A", "B", "C", "D", "E", "F", "G", "H", "I", "J", "K", "L", "M",
       "N", "O", "P", "Q", "R", "S", "T", "U", "V", "W", "X", "Y", "Z" >>
LowerCase ==
    << "a", "b", "c", "d", "e", "f", "g", "h", "i", "j", "k", "l", "m",
       "n", "o", "p", "q", "r", "s", "t", "u", "v", "w", "x", "y", "z" >>

\* the characters \b and \w treat as part of a word
WordChars == Digits \cup ToSet(UpperCase) \cup ToSet(LowerCase) \cup {"_"}

\* the character as flag i of a pattern compares it
Lower(c) ==
    IF c \in ToSet(UpperCase)
    THEN LowerCase[CHOOSE j \in 1..Len(UpperCase) : UpperCase[j] = c]
    ELSE c

\* the literal lit stands in s at index p (1-based)
LitAt(s, p, lit) ==
    /\ p >= 1 /\ p + Len(lit) - 1 <= Len(s)
    /\ \A j \in 1..Len(lit) : s[p + j - 1] = lit[j]

\* the same under flag i
LitAtI(s, p, lit) ==
    /\ p >= 1 /\ p + Len(lit) - 1 <= Len(s)
    /\ \A j \in 1..Len(lit) : Lower(s[p + j - 1]) = Lower(lit[j])

\* the smallest of the positions hits, 0 when there is none
FirstPos(hits) == IF hits = {} THEN 0 ELSE Min(hits)

RECURSIVE ConcatAll(_)
ConcatAll(seqs) ==
    IF seqs = <<>> THEN <<>> ELSE Head(seqs) \o ConcatAll(Tail(seqs))

\* \d{4}\.\d{5} stands in s at index p
IdAt(s, p) ==
    /\ p >= 1 /\ p + 9 <= Len(s)
    /\ \A j \in 0..9 : IF j = 4 THEN s[p + j] = "." ELSE s[p + j] \in Digits

\* line 20, _ARXIV_ID_RE.findall(s): \b(\d{4}\.\d{5})\b, the matches left to right
\* (the \b on either side: no word character next to the ten characters)
_ARXIV_ID_RE_findall(s) ==
    LET hits == SelectSeq(Indices(Len(s)),
                    LAMBDA p : /\ IdAt(s, p)
                               /\ (p = 1 \/ s[p - 1] \notin WordChars)
                               /\ (p + 9 = Len(s) \/ s[p + 10] \notin WordChars))
    IN  [j \in 1..Len(hits) |-> SubSeq(s, hits[j], hits[j] + 9)]

PapersPath == <<"/", "p", "a", "p", "e", "r", "s", "/">>

\* line 21, _HF_PAPERS_PATH_RE.findall(s): /papers/(\d{4}\.\d{5})\b
_HF_PAPERS_PATH_RE_findall(s) ==
    LET hits == SelectSeq(Indices(Len(s)),
                    LAMBDA p : /\ LitAt(s, p, PapersPath)
                               /\ IdAt(s, p + 8)
                               /\ (p + 17 = Len(s) \/ s[p + 18] \notin WordChars))
    IN  [j \in 1..Len(hits) |-> SubSeq(s, hits[j] + 8, hits[j] + 17)]

\* python compares strings by code point; two identifiers differ in digits only
IdLess(a, b) ==
    \E j \in 1..Len(a) :
        /\ \A h \in 1..(j - 1) : a[h] = b[h]
        /\ a[j] # b[j]
        /\ \E x, y \in 1..Len(DigitOrder) :
              x < y /\ a[j] = DigitOrder[x] /\ b[j] = DigitOrder[y]

\* sorted(set(ids))
RECURSIVE SortedSet(_)
SortedSet(S) ==
    IF S = {} THEN <<>>
    ELSE LET m == CHOOSE a \in S : \A b \in S \ {a} : IdLess(a, b)
         IN  <<m>> \o SortedSet(S \ {m})

AmpEntity == <<"&", "a", "m", "p">>

\* html.unescape for the one entity the pages of the model hold: &amp; and,
\* as html.unescape also accepts it, &amp without the semicolon.  The
\* ampersand stays, the rest of the entity goes.
unescape(s) ==
    LET InEntity(j) ==
            \E p \in (j - Len(AmpEntity))..(j - 1) :
                /\ LitAt(s, p, AmpEntity)
                /\ (j < p + Len(AmpEntity) \/ s[j] = ";")
        kept == SelectSeq(Indices(Len(s)), LAMBDA j : ~InEntity(j))
    IN  [j \in 1..Len(kept) |-> s[kept[j]]]

ScriptNames ==
    << <<"s", "c", "r", "i", "p", "t">>, <<"s", "t", "y", "l", "e">>,
       <<"n", "o", "s", "c", "r", "i", "p", "t">> >>

\* (mutant) the closing tag is found through a working backreference
ScriptCloser_Backreference(name) == <<"<", "/">> \o name \o <<">">>

\* line 49: what a script, style or noscript block must end with.  The pattern
\* is a raw string holding </\\1>, which is no backreference to the tag name
\* but the five characters < / \ 1 > themselves.
ScriptCloser(name) == <<"<", "/", "\\", "1", ">">>

\* line 49: the index of the last character of the match of
\* <(script|style|noscript)[^>]*>.*?</\\1> that starts at p, 0 when none does
ScriptBlockEnd(s, p) ==
    LET names == {k \in 1..Len(ScriptNames) : LitAtI(s, p, <<"<">> \o ScriptNames[k])}
    IN  IF names = {} THEN 0
        ELSE LET name == ScriptNames[Min(names)]
                 gt == FirstPos({j \in p + 1 + Len(name)..Len(s) : s[j] = ">"})
                 closer == ScriptCloser(name)
                 c == IF gt = 0 THEN 0
                      ELSE FirstPos({j \in gt + 1..Len(s) : LitAtI(s, j, closer)})
             IN  IF c = 0 THEN 0 ELSE c + Len(closer) - 1

\* line 50: the index of the last character of the match of <[^>]+> that
\* starts at p, 0 when none does
TagEnd(s, p) ==
    IF p > Len(s) \/ s[p] # "<" THEN 0
    ELSE LET gt == FirstPos({j \in p + 1..Len(s) : s[j] = ">"})
         IN  IF gt > p + 1 THEN gt ELSE 0

\* line 49: the matches of the pattern from index p on, left to right and
\* not overlapping, each as its first and last index
RECURSIVE ScriptBlocks(_, _)
ScriptBlocks(s, p) ==
    LET q == FirstPos({j \in p..Len(s) : ScriptBlockEnd(s, j) # 0})
    IN  IF q = 0 THEN <<>>
        ELSE <<[first |-> q, last |-> ScriptBlockEnd(s, q)]>>
                 \o ScriptBlocks(s, ScriptBlockEnd(s, q) + 1)

\* line 50: the matches of the pattern from index p on
RECURSIVE Tags(_, _)
Tags(s, p) ==
    LET q == FirstPos({j \in p..Len(s) : TagEnd(s, j) # 0})
    IN  IF q = 0 THEN <<>>
        ELSE <<[first |-> q, last |-> TagEnd(s, q)]>> \o Tags(s, TagEnd(s, q) + 1)

\* re.sub(pattern, " ", s) given the matches of the pattern in s
sub_space(s, matches) ==
    LET Inside(j) == \E k \in 1..Len(matches) : matches[k].first < j /\ j <= matches[k].last
        First(j) == \E k \in 1..Len(matches) : matches[k].first = j
        kept == SelectSeq(Indices(Len(s)), LAMBDA j : ~Inside(j))
    IN  [j \in 1..Len(kept) |-> IF First(kept[j]) THEN " " ELSE s[kept[j]]]

\* lines 47-53
_strip_tags(s) ==
    LET s1 == sub_space(s, ScriptBlocks(s, 1))
        s2 == sub_space(s1, Tags(s1, 1))
        s3 == unescape(s2)
    IN  strip(collapse_ws(s3))

-----------------------------------------------------------------------------
(* huggingface_papers.py: the four strategies on a text.                   *)

\* A parsed JSON value: a string or a number (with its characters), a dict or
\* a list (with its members in order; the members of a list have no key).
NdStr(s) == [t |-> "str", s |-> s, items |-> <<>>]
NdNum(s) == [t |-> "num", s |-> s, items |-> <<>>]
NdDict(items) == [t |-> "dict", s |-> <<>>, items |-> items]
NdList(items) == [t |-> "list", s |-> <<>>, items |-> items]
NdNone == [t |-> "none", s |-> <<>>, items |-> <<>>]

\* lines 56-63: the dicts of a value, each before those it holds
RECURSIVE _walk_json(_)
_walk_json(obj) ==
    LET below == ConcatAll([j \in 1..Len(obj.items) |-> _walk_json(obj.items[j].v)])
    IN  IF obj.t = "dict" THEN <<obj>> \o below
        ELSE IF obj.t = "list" THEN below
        ELSE <<>>

\* d.get(k)
Get(d, k) ==
    LET hits == {j \in 1..Len(d.items) : d.items[j].k = k}
    IN  IF hits = {} THEN NdNone ELSE d.items[Min(hits)].v

IdKeys == <<"arxivId", "arxiv_id", "paperId", "paper_id", "id", "paper_id">>
AuthorKeys == <<"authors", "author", "authorText", "author_text">>

\* a candidate (arxiv_id, title, author); author None is the empty sequence,
\* which no author that is kept can be (line 103)
Candidate(arxiv_id, title, author) ==
    [id |-> arxiv_id, title |-> title, author |-> author]

\* lines 74-107: what one dict adds to the list out
DictCandidates(d) ==
    LET title == Get(d, "title")
        idk == {k \in 1..Len(IdKeys) :
                   /\ Get(d, IdKeys[k]).t = "str"
                   /\ _ARXIV_ID_RE_findall(Get(d, IdKeys[k]).s) # <<>>}
        url == Get(d, "url")
        arxiv_id ==
            IF idk # {} THEN _ARXIV_ID_RE_findall(Get(d, IdKeys[Min(idk)]).s)[1]
            ELSE IF url.t = "str" /\ _ARXIV_ID_RE_findall(url.s) # <<>>
            THEN _ARXIV_ID_RE_findall(url.s)[1]
            ELSE <<>>
        ak == {k \in 1..Len(AuthorKeys) :
                   /\ Get(d, AuthorKeys[k]).t = "str"
                   /\ strip(Get(d, AuthorKeys[k]).s) # <<>>}
        author == IF ak = {} THEN <<>> ELSE strip(Get(d, AuthorKeys[Min(ak)]).s)
    IN  IF title.t # "str" \/ title.s = <<>> \/ Len(strip(title.s)) < 6 THEN <<>>
        ELSE IF arxiv_id = <<>> THEN <<>>
        ELSE << Candidate(arxiv_id, strip(title.s), author) >>

\* (mutant) a later title of the same length replaces the one kept
Longer_OrEqual(title, kept) == Len(title) >= Len(kept)

\* lines 112, 160 and 192: len(title) > len(dedup[arxiv_id])
Longer(title, kept) == Len(title) > Len(kept)

\* lines 109-115 (and the same loop at 157-163 and 190-194): a dict keeps its
\* keys in the order of their first insertion
RECURSIVE dedup(_)
dedup(cands) ==
    IF cands = <<>> THEN <<>>
    ELSE LET before == dedup(SubSeq(cands, 1, Len(cands) - 1))
             c == cands[Len(cands)]
             hits == {j \in 1..Len(before) : before[j].id = c.id}
         IN  IF hits = {} THEN Append(before, c)
             ELSE IF Longer(c.title, before[Min(hits)].title)
             THEN [before EXCEPT ![Min(hits)] = c]
             ELSE before

\* lines 71-107: the list out before it is deduplicated
next_data_out(next_data) ==
    LET ds == _walk_json(next_data)
    IN  ConcatAll([j \in 1..Len(ds) |-> DictCandidates(ds[j])])

_extract_candidates_from_next_data(next_data) == dedup(next_data_out(next_data))

ScriptOpen == <<"<", "s", "c", "r", "i", "p", "t">>
ScriptClose == <<"<", "/", "s", "c", "r", "i", "p", "t", ">">>
NextDataId ==
    <<"i", "d", "=", "\"", "_", "_", "N", "E", "X", "T", "_", "D", "A", "T", "A", "_", "_", "\"">>

\* lines 119-122: group 1 of the match of
\* <script[^>]+id="__NEXT_DATA__"[^>]*>(.*?)</script> that starts at p
NextDataAt(s, p) ==
    LET gt == FirstPos({j \in p + Len(ScriptOpen)..Len(s) : s[j] = ">"})
        close == IF gt = 0 THEN 0
                 ELSE FirstPos({j \in gt + 1..Len(s) : LitAtI(s, j, ScriptClose)})
    IN  IF /\ LitAtI(s, p, ScriptOpen)
           /\ gt # 0
           /\ \E q \in (p + Len(ScriptOpen) + 1)..(gt - Len(NextDataId)) :
                 LitAtI(s, q, NextDataId)
           /\ close # 0
        THEN [found |-> TRUE, raw |-> SubSeq(s, gt + 1, close - 1)]
        ELSE [found |-> FALSE, raw |-> <<>>]

\* re.search: the leftmost match
next_data_search(s) ==
    LET p == FirstPos({j \in 1..Len(s) : NextDataAt(s, j).found})
    IN  IF p = 0 THEN [found |-> FALSE, raw |-> <<>>] ELSE NextDataAt(s, p)

HrefPapers ==
    <<"h", "r", "e", "f", "=", "\"", "/", "p", "a", "p", "e", "r", "s", "/">>
CloseA == <<"<", "/", "a", ">">>
NoMatch == [end |-> 0, id |-> <<>>, title |-> <<>>]

\* lines 146-149: the match of
\* href="/papers/(?P<id>\d{4}\.\d{5})(?:[^"]*)"\s*[^>]*>(?P<title>[^<]{3,300})</a>
\* that starts at p
LinkMatchAt(s, p) ==
    LET idp == p + Len(HrefPapers)
        quote == FirstPos({j \in idp + 10..Len(s) : s[j] = "\""})
        gt == IF quote = 0 THEN 0
              ELSE FirstPos({j \in quote + 1..Len(s) : s[j] = ">"})
        lt == IF gt = 0 THEN 0
              ELSE FirstPos({j \in gt + 1..Len(s) : s[j] = "<"})
    IN  IF /\ LitAtI(s, p, HrefPapers) /\ IdAt(s, idp)
           /\ lt # 0
           /\ lt - gt - 1 >= 3 /\ lt - gt - 1 <= 300
           /\ LitAtI(s, lt, CloseA)
        THEN [end |-> lt + Len(CloseA) - 1,
              id |-> SubSeq(s, idp, idp + 9),
              title |-> SubSeq(s, gt + 1, lt - 1)]
        ELSE NoMatch

\* re.finditer from index from on: the matches left to right, none overlapping
RECURSIVE link_finditer(_, _)
link_finditer(s, from) ==
    LET p == FirstPos({j \in from..Len(s) : LinkMatchAt(s, j).end # 0})
    IN  IF p = 0 THEN <<>>
        ELSE <<LinkMatchAt(s, p)>> \o link_finditer(s, LinkMatchAt(s, p).end + 1)

\* re.fullmatch(r"[\d\.\-kK]+", title)
IsCount(title) ==
    title # <<>> /\ \A j \in 1..Len(title) : title[j] \in Digits \cup {".", "-", "k", "K"}

\* lines 143-155: the list candidates of a text, before it is deduplicated
link_matches(s) ==
    LET ms == link_finditer(s, 1)
        title(m) == strip(collapse_ws(unescape(m.title)))
        kept == SelectSeq(ms, LAMBDA m : title(m) # <<>> /\ ~IsCount(title(m)))
    IN  [j \in 1..Len(kept) |-> Candidate(kept[j].id, title(kept[j]), <<>>)]

ParenPapers == <<"(", "/", "p", "a", "p", "e", "r", "s", "/">>
Heading == <<"#", "#", "#">>

\* the whitespace run that starts at index a: the index after its last
\* character (a itself when there is none)
AfterWs(s, a) ==
    LET p == FirstPos({j \in a..Len(s) : s[j] \notin WS})
    IN  IF p = 0 THEN Len(s) + 1 ELSE p

\* \s*(?:\n|$) matches at index a: the whitespace run there holds a line
\* break or reaches the end of the text
LineEndsAt(s, a) ==
    \/ AfterWs(s, a) = Len(s) + 1
    \/ \E j \in a..(AfterWs(s, a) - 1) : s[j] = "\n"

\* lines 174-177: the match of
\* \(/papers/(?P<id>\d{4}\.\d{5})\)[^\n]*\n\s*###\s+(?P<title>.+?)\s*(?:\n|$)
\* that starts at p.  The greedy \s+ takes the whole whitespace run after
\* the heading mark and the lazy title ends at the first line end; when the
\* run reaches the end of the text the title is its last character.
MdMatchAt(s, p) ==
    LET idp == p + Len(ParenPapers)
        nl == FirstPos({j \in idp + 11..Len(s) : s[j] = "\n"})
        mark == IF nl = 0 THEN 0 ELSE AfterWs(s, nl + 1)
        t == AfterWs(s, mark + Len(Heading))
        e == FirstPos({j \in t..Len(s) : LineEndsAt(s, j + 1)})
        w == AfterWs(s, e + 1)
    IN  IF ~(/\ LitAtI(s, p, ParenPapers) /\ IdAt(s, idp) /\ LitAt(s, idp + 10, <<")">>)
             /\ nl # 0 /\ LitAt(s, mark, Heading)
             /\ t > mark + Len(Heading))
        THEN NoMatch
        ELSE IF t = Len(s) + 1
        THEN IF t - (mark + Len(Heading)) >= 2
             THEN [end |-> Len(s), id |-> SubSeq(s, idp, idp + 9), title |-> <<s[Len(s)]>>]
             ELSE NoMatch
        ELSE [end |-> IF w = Len(s) + 1 THEN Len(s)
                      ELSE Max({j \in (e + 1)..(w - 1) : s[j] = "\n"}),
              id |-> SubSeq(s, idp, idp + 9),
              title |-> SubSeq(s, t, e)]

\* re.finditer from index from on
RECURSIVE md_finditer(_, _)
md_finditer(s, from) ==
    LET p == FirstPos({j \in from..Len(s) : MdMatchAt(s, j).end # 0})
    IN  IF p = 0 THEN <<>>
        ELSE <<MdMatchAt(s, p)>> \o md_finditer(s, MdMatchAt(s, p).end + 1)

\* lines 173-182: the candidates of the pattern
md_matches(s) ==
    LET ms == md_finditer(s, 1)
        title(m) == collapse_ws(strip(m.title))
        kept == SelectSeq(ms, LAMBDA m : title(m) # <<>>)
    IN  [j \in 1..Len(kept) |-> Candidate(kept[j].id, title(kept[j]), <<>>)]

ArxivPrefix == <<"a", "r", "X", "i", "v", ":">>

\* f"arXiv:{arxiv_id}" for each identifier of a list
Placeholders(ids) ==
    [j \in 1..Len(ids) |-> Candidate(ids[j], ArxivPrefix \o ids[j], <<>>)]

-----------------------------------------------------------------------------
(* The pages of the model: JSON documents and page segments.                *)

IdA == <<"2","6","0","2",".","0","5","4","0","0">>
IdB == <<"2","6","0","2",".","0","5","4","0","1">>

\* two candidates of one identifier with titles of equal length
DocTies ==
    NdDict(<< [k |-> "props", v |-> NdList(<< [k |-> "", v |-> NdDict(<< [k |-> "title", v |-> NdStr(<<"G","r","a","p","h","s">>)],
              [k |-> "paperId", v |-> NdStr(<<"a","r","X","i","v",":","2","6","0","2",".","0","5","4","0","0","v","2">>)],
              [k |-> "author", v |-> NdStr(<<"B","o","b">>)] >>)],
          [k |-> "", v |-> NdDict(<< [k |-> "title", v |-> NdStr(<<"K","e","r","n","e","l">>)],
              [k |-> "url", v |-> NdStr(<<"h","t","t","p","s",":","/","/","h","u","g","g","i","n","g","f","a","c","e",".","c","o","/","p","a","p","e","r","s","/","2","6","0","2",".","0","5","4","0","0">>)],
              [k |-> "authors", v |-> NdStr(<<" ","A","n","n"," ">>)] >>)] >>)] >>)
\* its text
DocTiesText ==
    <<"{","\"","p","r","o","p","s","\"",":","[","{","\"","t","i","t","l","e","\"",":","\"","G","r",
      "a","p","h","s","\"",",","\"","p","a","p","e","r","I","d","\"",":","\"","a","r","X","i",
      "v",":","2","6","0","2",".","0","5","4","0","0","v","2","\"",",","\"","a","u","t","h","o",
      "r","\"",":","\"","B","o","b","\"","}",",","{","\"","t","i","t","l","e","\"",":","\"","K",
      "e","r","n","e","l","\"",",","\"","u","r","l","\"",":","\"","h","t","t","p","s",":","/",
      "/","h","u","g","g","i","n","g","f","a","c","e",".","c","o","/","p","a","p","e","r","s",
      "/","2","6","0","2",".","0","5","4","0","0","\"",",","\"","a","u","t","h","o","r","s",
      "\"",":","\""," ","A","n","n"," ","\"","}","]","}">>

\* a longer title seen later, a second identifier, dicts that are skipped
DocLonger ==
    NdDict(<< [k |-> "title", v |-> NdStr(<<"D","a","i","l","y"," ","P","a","p","e","r","s">>)],
      [k |-> "papers", v |-> NdList(<< [k |-> "", v |-> NdDict(<< [k |-> "title", v |-> NdStr(<<"G","r","a","p","h","s">>)],
              [k |-> "id", v |-> NdStr(<<"2","6","0","2",".","0","5","4","0","0">>)] >>)],
          [k |-> "", v |-> NdDict(<< [k |-> "title", v |-> NdStr(<<" ","G","r","a","p","h"," "," ","N","e","t","s"," ">>)],
              [k |-> "arxivId", v |-> NdNum(<<"7">>)],
              [k |-> "id", v |-> NdStr(<<"2","6","0","2",".","0","5","4","0","0">>)],
              [k |-> "authorText", v |-> NdStr(<<" "," ">>)] >>)],
          [k |-> "", v |-> NdDict(<< [k |-> "title", v |-> NdStr(<<"N","e","t","s">>)],
              [k |-> "id", v |-> NdStr(<<"2","6","0","2",".","0","5","4","0","1">>)] >>)],
          [k |-> "", v |-> NdDict(<< [k |-> "title", v |-> NdStr(<<"K","e","r","n","e","l">>)],
              [k |-> "id", v |-> NdStr(<<"n","/","a">>)],
              [k |-> "url", v |-> NdStr(<<"/","p","a","p","e","r","s","/","2","6","0","2",".","0","5","4","0","1">>)] >>)] >>)] >>)
\* its text
DocLongerText ==
    <<"{","\"","t","i","t","l","e","\"",":","\"","D","a","i","l","y"," ","P","a","p","e","r","s",
      "\"",",","\"","p","a","p","e","r","s","\"",":","[","{","\"","t","i","t","l","e","\"",":",
      "\"","G","r","a","p","h","s","\"",",","\"","i","d","\"",":","\"","2","6","0","2",".","0",
      "5","4","0","0","\"","}",",","{","\"","t","i","t","l","e","\"",":","\""," ","G","r","a",
      "p","h"," "," ","N","e","t","s"," ","\"",",","\"","a","r","x","i","v","I","d","\"",":",
      "7",",","\"","i","d","\"",":","\"","2","6","0","2",".","0","5","4","0","0","\"",",","\"",
      "a","u","t","h","o","r","T","e","x","t","\"",":","\""," "," ","\"","}",",","{","\"","t",
      "i","t","l","e","\"",":","\"","N","e","t","s","\"",",","\"","i","d","\"",":","\"","2","6",
      "0","2",".","0","5","4","0","1","\"","}",",","{","\"","t","i","t","l","e","\"",":","\"",
      "K","e","r","n","e","l","\"",",","\"","i","d","\"",":","\"","n","/","a","\"",",","\"","u",
      "r","l","\"",":","\"","/","p","a","p","e","r","s","/","2","6","0","2",".","0","5","4","0",
      "1","\"","}","]","}">>

\* a well-formed document that is a list, not a dict
DocList ==
    NdList(<< [k |-> "", v |-> NdDict(<< [k |-> "title", v |-> NdStr(<<"G","r","a","p","h","s">>)],
          [k |-> "id", v |-> NdStr(<<"2","6","0","2",".","0","5","4","0","0">>)] >>)] >>)
\* its text
DocListText ==
    <<"[","{","\"","t","i","t","l","e","\"",":","\"","G","r","a","p","h","s","\"",",","\"","i","d",
      "\"",":","\"","2","6","0","2",".","0","5","4","0","0","\"","}","]">>

\* a dict whose only title is too short
DocShort ==
    NdDict(<< [k |-> "title", v |-> NdStr(<<"N","e","t","s">>)],
      [k |-> "id", v |-> NdStr(<<"2","6","0","2",".","0","5","4","0","1">>)] >>)
\* its text
DocShortText ==
    <<"{","\"","t","i","t","l","e","\"",":","\"","N","e","t","s","\"",",","\"","i","d","\"",":",
      "\"","2","6","0","2",".","0","5","4","0","1","\"","}">>

NextOpen ==
    <<"<","s","c","r","i","p","t"," ","i","d","=","\"","_","_","N","E","X","T","_","D","A","T","A",
      "_","_","\""," ","t","y","p","e","=","\"","a","p","p","l","i","c","a","t","i","o","n","/",
      "j","s","o","n","\"",">">>

\* The segments of a page, each a whole tag, line or script block.
Segments ==
    <<
    \* 1: SegNextTies
    NextOpen \o DocTiesText \o ScriptClose,
    \* 2: SegNextLonger
    NextOpen \o DocLongerText \o ScriptClose,
    \* 3: SegNextBroken
    \* (the text of a document cut short: json.loads raises)
    NextOpen \o SubSeq(DocTiesText, 1, Len(DocTiesText) - 1) \o ScriptClose,
    \* 4: SegNextList
    NextOpen \o DocListText \o ScriptClose,
    \* 5: SegNextShort
    NextOpen \o DocShortText \o ScriptClose,
    \* 6: SegNextBlank
    <<"<","s","c","r","i","p","t"," ","i","d","=","\"","_","_","N","E","X","T","_","D","A","T","A",
      "_","_","\"",">"," ","<","/","s","c","r","i","p","t",">">>,
    \* 7: SegAnchorGraphs
    <<"<","a"," ","h","r","e","f","=","\"","/","p","a","p","e","r","s","/","2","6","0","2",".","0",
      "5","4","0","0","\"",">","G","r","a","p","h","s","<","/","a",">">>,
    \* 8: SegAnchorKernel
    <<"<","A"," ","c","l","a","s","s","=","\"","t","\""," ","H","R","E","F","=","\"","/","p","a",
      "p","e","r","s","/","2","6","0","2",".","0","5","4","0","0","#","t","o","p","\""," ",">",
      "K","e","r","n","e","l","<","/","A",">">>,
    \* 9: SegAnchorNets
    <<"<","a"," ","h","r","e","f","=","\"","/","p","a","p","e","r","s","/","2","6","0","2",".","0",
      "5","4","0","0","\"",">"," ","G","r","a","p","h"," "," ","N","e","t","s"," ","<","/","a",
      ">">>,
    \* 10: SegAnchorBadge
    <<"<","a"," ","h","r","e","f","=","\"","/","p","a","p","e","r","s","/","2","6","0","2",".","0",
      "5","4","0","1","\"",">","3","3","3","<","/","a",">">>,
    \* 11: SegAnchorAmp
    <<"<","a"," ","h","r","e","f","=","\"","/","p","a","p","e","r","s","/","2","6","0","2",".","0",
      "5","4","0","1","\"",">","Q","&","a","m","p",";","A","<","/","a",">">>,
    \* 12: SegMdGraphs
    <<"[","3","3","3","]","(","/","p","a","p","e","r","s","/","2","6","0","2",".","0","5","4","0",
      "0",")","\n","#","#","#"," ","G","r","a","p","h","s">>,
    \* 13: SegMdNets
    <<"[","1","2","]","(","/","p","a","p","e","r","s","/","2","6","0","2",".","0","5","4","0","0",
      ")"," ","n","e","w","\n","\n","#","#","#"," "," ","G","r","a","p","h"," "," ","N","e","t",
      "s"," ">>,
    \* 14: SegText
    <<"s","e","e"," ","2","6","0","2",".","0","5","4","0","1"," ","h","e","r","e">>,
    \* 15: SegGlued
    <<"v","2","6","0","2",".","0","5","4","0","0","x">>,
    \* 16: SegAttr
    <<"<","d","i","v"," ","d","a","t","a","-","p","a","p","e","r","=","\"","2","6","0","2",".","0",
      "5","4","0","0","\"",">","<","/","d","i","v",">">>,
    \* 17: SegScript
    <<"<","s","c","r","i","p","t",">","v","a","r"," ","p"," ","="," ","\"","2","6","0","2",".","0",
      "5","4","0","1","\"",";","<","/","s","c","r","i","p","t",">">>,
    \* 18: SegFiller
    <<"<","p",">","h","e","l","l","o","<","/","p",">">>
    >>


\* json.loads on the texts of the documents above; any other text raises
JsonDocs ==
    << [text |-> DocTiesText, val |-> DocTies],
       [text |-> DocLongerText, val |-> DocLonger],
       [text |-> DocListText, val |-> DocList],
       [text |-> DocShortText, val |-> DocShort] >>

json_loads(raw) ==
    LET hits == {k \in 1..Len(JsonDocs) : JsonDocs[k].text = raw}
    IN  IF hits = {} THEN [ok |-> FALSE, val |-> NdNone]
        ELSE [ok |-> TRUE, val |-> JsonDocs[Min(hits)].val]

-----------------------------------------------------------------------------
(* SpecParse: parse_hf_daily_papers on a page.                             *)

MaxSegs == 3            \* SpecParse: most segments of a page

\* A page is a sequence of indices into Segments; in the text of the page each
\* segment is followed by a line break.
SegLine(k) == Append(Segments[k], "\n")

Pages == UNION {[1..n -> 1..Len(Segments)] : n \in 0..MaxSegs}

\* A segment holds whole tags and whole lines, so no match of a pattern spans
\* two segments: the matches of a pattern in a page are the matches in its
\* segments, in the order of the page.  Each pattern is applied to a segment
\* once and for all:
SegNextData == [k \in 1..Len(Segments) |-> next_data_search(SegLine(k))]
SegLinks == [k \in 1..Len(Segments) |-> link_matches(SegLine(k))]
SegMd == [k \in 1..Len(Segments) |-> md_matches(SegLine(k))]
SegPathIds == [k \in 1..Len(Segments) |-> _HF_PAPERS_PATH_RE_findall(SegLine(k))]
SegTextIds == [k \in 1..Len(Segments) |-> _ARXIV_ID_RE_findall(_strip_tags(SegLine(k)))]

InPage(html, table) == ConcatAll([j \in 1..Len(html) |-> table[html[j]]])

\* lines 119-135: whether _extract_candidates_from_next_data is reached, and
\* the dict it is given
NextData(html) ==
    LET hits == {j \in 1..Len(html) : SegNextData[html[j]].found}
        raw == strip(SegNextData[html[Min(hits)]].raw)
        data == json_loads(raw)
    IN  IF hits = {} \/ raw = <<>> \/ ~data.ok
        THEN [reached |-> FALSE, data |-> NdNone]
        ELSE [reached |-> TRUE,
              data |-> IF data.val.t = "dict" THEN data.val ELSE NdDict(<<>>)]

_try_parse_next_data(html) ==
    IF NextData(html).reached
    THEN _extract_candidates_from_next_data(NextData(html).data)
    ELSE <<>>

_parse_from_html_links(html) == dedup(InPage(html, SegLinks))

\* lines 173-188: the list candidates before it is deduplicated
markdownish_candidates(text) ==
    LET candidates == InPage(text, SegMd)
    IN  IF candidates = <<>>
        THEN Placeholders(SortedSet(ToSet(InPage(text, SegPathIds))))
        ELSE candidates

_parse_from_markdownish_text(text) == dedup(markdownish_candidates(text))

\* lines 251-252
last_resort_ids(text) == SortedSet(ToSet(InPage(text, SegTextIds)))

UrlPrefix ==
    <<"h", "t", "t", "p", "s", ":", "/", "/", "h", "u", "g", "g", "i", "n", "g", "f", "a", "c",
      "e", ".", "c", "o", "/", "p", "a", "p", "e", "r", "s", "/">>
GuidPrefix == <<"h", "f", "-", "p", "a", "p", "e", "r", "s", ":">>

\* the record built from a candidate (published_at, the same for every record
\* of a call, and summary, always None, are left out)
ParsedRSSItem(c) ==
    [title |-> c.title, url |-> UrlPrefix \o c.id, author |-> c.author,
     guid |-> GuidPrefix \o c.id]

Items(cands) == [j \in 1..Len(cands) |-> ParsedRSSItem(cands[j])]

PInit ==
    /\ SInitIdle /\ TInitIdle
    /\ ppc = "s1"
    /\ content \in Pages
    /\ tried = <<>>
    /\ result = <<>>

\* (mutant) a strategy that found candidates does not return
AfterTry_FallThrough(cands, next) == next

\* lines 205, 222 and 237: candidates of a strategy end the call
AfterTry(cands, next) == IF cands # <<>> THEN "done" ELSE next

Tried(k, cands) == [strategy |-> k, n |-> Len(cands)]

\* lines 204-218
TryNextData ==
    /\ ppc = "s1"
    /\ LET next_candidates == _try_parse_next_data(content)
       IN  /\ tried' = Append(tried, Tried(1, next_candidates))
           /\ result' = IF next_candidates # <<>> THEN Items(next_candidates) ELSE result
           /\ ppc' = AfterTry(next_candidates, "s2")
    /\ UNCHANGED <<content, svars, tvars>>

\* lines 221-233
TryHtmlLinks ==
    /\ ppc = "s2"
    /\ LET link_candidates == _parse_from_html_links(content)
       IN  /\ tried' = Append(tried, Tried(2, link_candidates))
           /\ result' = IF link_candidates # <<>> THEN Items(link_candidates) ELSE result
           /\ ppc' = AfterTry(link_candidates, "s3")
    /\ UNCHANGED <<content, svars, tvars>>

\* lines 236-248
TryMarkdownish ==
    /\ ppc = "s3"
    /\ LET md_candidates == _parse_from_markdownish_text(content)
       IN  /\ tried' = Append(tried, Tried(3, md_candidates))
           /\ result' = IF md_candidates # <<>> THEN Items(md_candidates) ELSE result
           /\ ppc' = AfterTry(md_candidates, "s4")
    /\ UNCHANGED <<content, svars, tvars>>

\* lines 251-263
LastResortScan ==
    /\ ppc = "s4"
    /\ LET ids == last_resort_ids(content)
       IN  /\ tried' = Append(tried, Tried(4, ids))
           /\ result' = Items(Placeholders(ids))
    /\ ppc' = "done"
    /\ UNCHANGED <<content, svars, tvars>>

PNext == TryNextData \/ TryHtmlLinks \/ TryMarkdownish \/ LastResortScan

SpecParse == PInit /\ [][PNext]_vars

-----------------------------------------------------------------------------
(* Claims about parse_hf_daily_papers, checked under SpecParse.            *)

\* the identifier pattern stands in the text as a whole word
NamesId(s) == _ARXIV_ID_RE_findall(s) # <<>>

\* index j of s lies inside a tag: after a "<" with no ">" in between, and
\* before a ">"
InTag(s, j) ==
    /\ \E l \in 1..j : s[l] = "<" /\ \A h \in l..(j - 1) : s[h] # ">"
    /\ \E g \in j..Len(s) : s[g] = ">"

\* the text outside tags, entities decoded
OutsideTags(s) == unescape([j \in 1..Len(s) |-> IF InTag(s, j) THEN " " ELSE s[j]])

\* the five characters < / \ 1 > stand somewhere in the text
HoldsLiteralCloser(s) ==
    \E p \in 1..Len(s) : LitAt(s, p, <<"<", "/", "\\", "1", ">">>)

SegNamesId == [k \in 1..Len(Segments) |-> NamesId(SegLine(k))]
SegShowsId == [k \in 1..Len(Segments) |-> NamesId(OutsideTags(SegLine(k)))]
SegHoldsLiteralCloser == [k \in 1..Len(Segments) |-> HoldsLiteralCloser(SegLine(k))]

\* C7 as stated: when the identifier pattern appears anywhere in the page,
\* the list returned is not empty.
C7_NeverEmptyWhenPatternAppears ==
    (ppc = "done" /\ \E j \in 1..Len(content) : SegNamesId[content[j]])
        => result # <<>>

\* C7 amended: in a page that does not hold the characters </\1>, the list
\* returned is not empty when the identifier pattern stands as a whole word in
\* the text outside tags (plain text, script or style contents), entities
\* decoded.
C7_NeverEmptyWhenPatternInText ==
    (/\ ppc = "done"
     /\ \A j \in 1..Len(content) : ~SegHoldsLiteralCloser[content[j]]
     /\ \E j \in 1..Len(content) : SegShowsId[content[j]])
        => result # <<>>

\* C7 witness: strategies 1 to 3 found nothing in a page whose text outside
\* tags names an identifier, and the last strategy returned a record.
C7_Witness ==
    /\ ppc = "done" /\ Len(tried) = 4 /\ result # <<>>
    /\ \A j \in 1..3 : tried[j].n = 0
    /\ \A j \in 1..Len(content) : ~SegHoldsLiteralCloser[content[j]]
    /\ \E j \in 1..Len(content) : SegShowsId[content[j]]

\* what strategy k makes of a page
StrategyCandidates(k, html) ==
    CASE k = 1 -> _try_parse_next_data(html)
      [] k = 2 -> _parse_from_html_links(html)
      [] k = 3 -> _parse_from_markdownish_text(html)
      [] OTHER -> Placeholders(last_resort_ids(html))

\* C8: the strategies are evaluated in the order 1, 2, 3, 4; a strategy is
\* evaluated only when every earlier one produced no candidate; the call ends
\* with the first strategy that produced a candidate (or with the last one)
\* and returns the records of that strategy alone.
C8_FirstStrategyWins ==
    /\ \A j \in 1..Len(tried) :
          /\ tried[j].strategy = j
          /\ tried[j].n = Len(StrategyCandidates(j, content))
          /\ j < Len(tried) => tried[j].n = 0
    /\ ppc = "s1" => Len(tried) = 0
    /\ ppc = "s2" => Len(tried) = 1
    /\ ppc = "s3" => Len(tried) = 2
    /\ ppc = "s4" => Len(tried) = 3
    /\ ppc = "done" =>
          /\ Len(tried) \in 1..4
          /\ tried[Len(tried)].n > 0 \/ Len(tried) = 4
          /\ result = Items(StrategyCandidates(Len(tried), content))

\* C8 witness: the anchor strategy won although the markdown strategy and the
\* last-resort scan would have found candidates too, the scan more of them.
C8_Witness ==
    /\ ppc = "done" /\ Len(tried) = 2 /\ result # <<>>
    /\ StrategyCandidates(3, content) # <<>>
    /\ Len(StrategyCandidates(4, content)) > Len(result)

\* the candidates of strategy k before they are deduplicated
RawCandidates(k, html) ==
    CASE k = 1 -> IF NextData(html).reached THEN next_data_out(NextData(html).data)
                  ELSE <<>>
      [] k = 2 -> InPage(html, SegLinks)
      [] k = 3 -> markdownish_candidates(html)
      [] OTHER -> Placeholders(InPage(html, SegTextIds))

\* C9: no two records returned share an identifier; every identifier of a
\* candidate of the winning strategy is returned; the title (and author) kept
\* for an identifier is that of its candidate with the longest title, the
\* first of them when several are as long.
C9_LongestTitleFirstSeen ==
    ppc = "done" =>
        LET W == RawCandidates(Len(tried), content)
            Mine(a) == {c \in 1..Len(W) : GuidPrefix \o W[c].id = result[a].guid}
            Best(a) == {c \in Mine(a) :
                           \A h \in Mine(a) : Len(W[h].title) <= Len(W[c].title)}
        IN  /\ \A a, b \in 1..Len(result) : a # b => result[a].guid # result[b].guid
            /\ \A c \in 1..Len(W) :
                  \E a \in 1..Len(result) : result[a].guid = GuidPrefix \o W[c].id
            /\ \A a \in 1..Len(result) :
                  /\ Mine(a) # {}
                  /\ result[a].title = W[Min(Best(a))].title
                  /\ result[a].author = W[Min(Best(a))].author
                  /\ result[a].url = UrlPrefix \o W[Min(Best(a))].id

\* C9 witness: the winning strategy had three candidates of one identifier,
\* the first two with different titles of the same length and a longer one
\* last, and a single record was returned.
C9_Witness ==
    /\ ppc = "done" /\ Len(result) = 1
    /\ LET W == RawCandidates(Len(tried), content)
       IN  /\ Len(W) = 3
           /\ W[1].title # W[2].title /\ Len(W[1].title) = Len(W[2].title)
           /\ Len(W[3].title) > Len(W[1].title)

====
